---------------------------- MODULE Spec2Model ----------------------------
(***************************************************************************)
(* Chain resolver and cache of blocks_mcp (src/src/block_scout_api.rs).    *)
(*                                                                         *)
(* A call is one invocation of API::get_chain_explorer_url.  Calls are     *)
(* numbered in the order in which they are made; each runs get_chain as a  *)
(* sequence of steps separated by the await points of the source: the      *)
(* read-lock acquisition, the write-lock acquisition, the registry         *)
(* request's send().await and the body's json().await.  The registry is    *)
(* an environment that answers every fetch with a transport error, a       *)
(* status, an undecodable body or any Chain record.                        *)
(***************************************************************************)
EXTENDS Integers, Sequences, FiniteSets, TLC

\* ------------------------------------------------------------------ bounds
\* Number of calls made during one run of the process.
NumCalls == 3
\* Number of those calls that are forwarder calls (API::request), where the
\* forwarder is followed.
NumRequests == 2
\* calls that go through API::request beside concurrent resolutions
NumForwarded == 1

\* ------------------------------------------------------- program constants
MerlinChainId == 4200
StatusOK == 200
MerlinUrl == "https://scan.merlinverify.com/"

\* ------------------------------------------------------------ input domains
Procs == 1..NumCalls
\* chain ids a caller may pass: two registry-resolved ids and the override id
ChainIds == {1, 2, MerlinChainId}
\* statuses the registry may answer with
Statuses == {StatusOK, 404}
\* Chain records the registry may return (name and explorers of struct Chain)
ChainA == [name |-> "A", explorers |-> <<"https://a1.example/", "https://a2.example/">>]
ChainB == [name |-> "B", explorers |-> <<"https://b1.example/">>]
ChainE == [name |-> "E", explorers |-> <<>>]
Chains == {ChainA, ChainB, ChainE}
\* the absence of a Chain value (Option::None / not yet assigned)
NoChain == [name |-> "", explorers |-> <<>>]
\* the empty HashMap
EmptyMap == [k \in {} |-> NoChain]

\* ---------------------------------------------------------------- results
Ok(v) == [kind |-> "Ok", val |-> v]
Err(e) == [kind |-> "Err", val |-> e]
NoResult == [kind |-> "None", val |-> ""]
\* anyhow!("request failed: {}", res.status())
LookupFailed(s) == Err(<<"request failed", s>>)
\* anyhow!("no explorers")
NoExplorerAvailable == Err(<<"no explorers", 0>>)
\* the error of send().await?
SendFailed == Err(<<"send error", 0>>)
\* the error of res.json().await?
DecodeFailed == Err(<<"decode error", 0>>)

\* ------------------------------------------- request forwarder: its data
\* a field of a parameter struct: its name on the wire (serde rename) and
\* whether it carries skip_serializing_if = "String::is_empty"
Field(w, sk) == [wire |-> w, skip |-> sk]

\* the parameter structs, fields in declaration order
SearchParams == <<Field("q", FALSE)>>
GetTransactionsParams == <<Field("filter", TRUE), Field("type", TRUE), Field("method", TRUE)>>
GetBlocksParams == <<Field("type", TRUE)>>
GetTransactionTokenTransfersParams == <<Field("type", TRUE)>>
GetAddressTransactionsParams == <<Field("filter", TRUE)>>
GetAddressTokenTransfersParams == <<Field("type", TRUE), Field("filter", TRUE), Field("token", TRUE)>>
GetAddressInternalTransactionsParams == <<Field("filter", TRUE)>>
GetAddressTokensParams == <<Field("type", TRUE)>>
GetAddressNftsParams == <<Field("type", TRUE)>>
GetTokensParams == <<Field("q", TRUE), Field("type", TRUE)>>
\* the unit query &()
NoParams == <<>>

\* an operation: the path it formats (before and after the identifier, when it
\* takes one) and its parameter struct
Op(pre, id, post, ps) == [prefix |-> pre, takes_id |-> id, suffix |-> post, params |-> ps]

search == Op("search", FALSE, "", SearchParams)
get_transactions == Op("transactions", FALSE, "", GetTransactionsParams)
get_blocks == Op("blocks", FALSE, "", GetBlocksParams)
get_stats == Op("stats", FALSE, "", NoParams)
get_transaction_info == Op("transactions/", TRUE, "", NoParams)
get_transaction_token_transfers ==
    Op("transactions/", TRUE, "/token-transfers", GetTransactionTokenTransfersParams)
get_address_transactions ==
    Op("addresses/", TRUE, "/transactions", GetAddressTransactionsParams)
get_address_token_transfers ==
    Op("addresses/", TRUE, "/token-transfers", GetAddressTokenTransfersParams)
get_address_internal_transactions ==
    Op("addresses/", TRUE, "/internal-transactions", GetAddressInternalTransactionsParams)
get_address_tokens == Op("addresses/", TRUE, "/tokens", GetAddressTokensParams)
get_address_nfts == Op("addresses/", TRUE, "/nft", GetAddressNftsParams)
get_tokens == Op("tokens", FALSE, "", GetTokensParams)

Operations ==
    {search, get_transactions, get_blocks, get_stats, get_transaction_info,
     get_transaction_token_transfers, get_address_transactions,
     get_address_token_transfers, get_address_internal_transactions,
     get_address_tokens, get_address_nfts, get_tokens}

\* the explorer request of a call: the arguments of the operation (its
\* identifier and parameter values) and the GET built from them
Request(op, id, vals, url, query) ==
    [op |-> op, id |-> id, vals |-> vals, url |-> url, query |-> query]
\* no explorer request in flight
NoRequest == Request(Op("", FALSE, "", NoParams), "", <<>>, "", <<>>)

\* values a caller may give a string parameter, and the identifier it may give
ParamValues == {"", "WETH"}
Identifiers == {"0xabc"}
\* the values of the fields of parameter struct ps
ValuesOf(ps) == [1..Len(ps) -> ParamValues]

\* the path argument of request: a literal or format!("..{}..", hash)
PathOf(op, id) ==
    IF op.takes_id THEN op.prefix \o id \o op.suffix ELSE op.prefix

\* a serializer that writes every field
RECURSIVE SerializeAll(_, _)
SerializeAll(ps, vals) ==
    IF Len(ps) = 0 THEN <<>>
    ELSE <<<<ps[1].wire, vals[1]>>>> \o SerializeAll(Tail(ps), Tail(vals))

\* serde serialization of a parameter struct to the query's key-value pairs:
\* fields in order, a skip field left out when its value is empty
RECURSIVE Serialize(_, _)
Serialize(ps, vals) ==
    IF Len(ps) = 0 THEN <<>>
    ELSE (IF ps[1].skip /\ vals[1] = "" THEN <<>> ELSE <<<<ps[1].wire, vals[1]>>>>)
         \o Serialize(Tail(ps), Tail(vals))

\* a URL built without the api/v2/ prefix
BuildUrlBare(base, path) == base \o path

\* format!("{}api/v2/{}", url, path)
BuildUrl(base, path) == base \o "api/v2/" \o path

\* the query string of the pairs: k=v joined by &
RECURSIVE QueryString(_)
QueryString(pairs) ==
    IF Len(pairs) = 0 THEN ""
    ELSE pairs[1][1] \o "=" \o pairs[1][2]
         \o (IF Len(pairs) > 1 THEN "&" \o QueryString(Tail(pairs)) ELSE "")

\* the target of the GET: the URL, and ?query when there are pairs
Target(req) ==
    IF Len(req.query) = 0 THEN req.url ELSE req.url \o "?" \o QueryString(req.query)

\* bodies the explorer may answer with, and their parse by res.json()
ItemsBody == "{\"items\": []}"
ItemsValue == [items |-> <<>>]
Bodies == {ItemsBody, "<html>"}
JsonParse(b) == IF b = ItemsBody THEN Ok(ItemsValue) ELSE DecodeFailed
\* anyhow!("request failed: {}", res.status()) of request
RequestFailed(s) == Err(<<"request failed", s>>)

VARIABLES
    cached_chains,  \* API.cached_chains: the HashMap<i32, Chain> inside the RwLock
    readers,        \* calls holding a read guard of the RwLock
    writer,         \* the call holding the write guard of the RwLock, 0 if none
    pc,             \* each call's position in get_chain_explorer_url / get_chain
    chain_id,       \* each call's argument, 0 before the call is made
    status,         \* res.status() of the call's registry response, 0 if none
    chain,          \* the Chain the call's get_chain obtained, NoChain if none
    result,         \* the value get_chain_explorer_url returned to the caller
    fetches,        \* registry GET requests the call has issued
    missed,         \* whether the call found its chain id absent under the read guard
    fpc,            \* each call's position in API::request after the resolution
    request,        \* the explorer request the call has in flight, NoRequest if none
    body,           \* the body of the explorer's 200 response, "" if none
    gets,           \* explorer GET requests the call has issued
    reply           \* the value API::request returned to the caller

\* the state of the forwarder (API::request)
fvars == <<fpc, request, body, gets, reply>>

vars == <<cached_chains, readers, writer, pc, chain_id, status, chain, result,
          fetches, missed, fpc, request, body, gets, reply>>

\* -------------------------------------------------------------- Chain::get_url
\* a get_url without the "no explorers" error
get_url_unchecked(c) ==
    IF Len(c.explorers) > 0 THEN Ok(c.explorers[1]) ELSE Ok("")

\* Chain::get_url: the first explorer's url, or Err("no explorers")
get_url(c) ==
    IF Len(c.explorers) > 0 THEN Ok(c.explorers[1])
    ELSE NoExplorerAvailable

\* ---------------------------------------------------------------- HashMap
\* a lookup that never finds the entry
NeverContains(m, k) == FALSE

\* HashMap::get(&chain_id).is_some()
Contains(m, k) == k \in DOMAIN m

\* HashMap::entry(k).or_insert(c): keeps an existing entry
InsertIfAbsent(m, k, c) == IF k \in DOMAIN m THEN m ELSE (k :> c) @@ m

\* a map rebuilt from the new entry alone
InsertAlone(m, k, c) == (k :> c)

\* HashMap::insert(k, c): adds or replaces the entry of k
Insert(m, k, c) == (k :> c) @@ m

\* ------------------------------------------------------------------ RwLock
\* a read() that does not wait for the writer
CanReadWhileWritten == TRUE

\* read() is granted while no write guard is out
CanRead == writer = 0

\* a write() that waits for the writer only
CanWriteWhileRead == writer = 0

\* write() is granted while no guard at all is out
CanWrite == writer = 0 /\ readers = {}

Init ==
    /\ cached_chains = EmptyMap
    /\ readers = {}
    /\ writer = 0
    /\ pc = [p \in Procs |-> "idle"]
    /\ chain_id = [p \in Procs |-> 0]
    /\ status = [p \in Procs |-> 0]
    /\ chain = [p \in Procs |-> NoChain]
    /\ result = [p \in Procs |-> NoResult]
    /\ fetches = [p \in Procs |-> 0]
    /\ missed = [p \in Procs |-> FALSE]
    /\ fpc = [p \in Procs |-> "none"]
    /\ request = [p \in Procs |-> NoRequest]
    /\ body = [p \in Procs |-> ""]
    /\ gets = [p \in Procs |-> 0]
    /\ reply = [p \in Procs |-> NoResult]

\* calls are numbered in the order they are made
NextToCall(p) == pc[p] = "idle" /\ \A q \in Procs : q < p => pc[q] # "idle"

\* a resolver without the override
IsOverrideNever(k) == FALSE

\* chain_id == 4200
IsOverride(k) == k = MerlinChainId

\* get_chain_explorer_url, up to the first await of get_chain
Call(p, k) ==
    /\ NextToCall(p)
    /\ chain_id' = [chain_id EXCEPT ![p] = k]
    /\ IF IsOverride(k)
       THEN /\ pc' = [pc EXCEPT ![p] = "done"]
            /\ result' = [result EXCEPT ![p] = Ok(MerlinUrl)]
       ELSE /\ pc' = [pc EXCEPT ![p] = "read_wait"]
            /\ UNCHANGED result
    /\ UNCHANGED <<cached_chains, readers, writer, status, chain, fetches, missed>>
    /\ UNCHANGED fvars

\* self.cached_chains.read().await
ReadAcquire(p) ==
    /\ pc[p] = "read_wait"
    /\ CanRead
    /\ readers' = readers \cup {p}
    /\ pc' = [pc EXCEPT ![p] = "read_held"]
    /\ UNCHANGED <<cached_chains, writer, chain_id, status, chain, result, fetches, missed>>
    /\ UNCHANGED fvars

\* the entry is present: clone it, drop the read guard, return; then get_url
ReadHit(p) ==
    /\ pc[p] = "read_held"
    /\ Contains(cached_chains, chain_id[p])
    /\ chain' = [chain EXCEPT ![p] = cached_chains[chain_id[p]]]
    /\ result' = [result EXCEPT ![p] = get_url(cached_chains[chain_id[p]])]
    /\ readers' = readers \ {p}
    /\ pc' = [pc EXCEPT ![p] = "done"]
    /\ UNCHANGED <<cached_chains, writer, chain_id, status, fetches, missed>>
    /\ UNCHANGED fvars

\* a miss that keeps the read guard while it asks for the write guard
ReadMissKeepingGuard(p) ==
    /\ pc[p] = "read_held"
    /\ ~Contains(cached_chains, chain_id[p])
    /\ missed' = [missed EXCEPT ![p] = TRUE]
    /\ pc' = [pc EXCEPT ![p] = "write_wait"]
    /\ UNCHANGED <<cached_chains, readers, writer, chain_id, status, chain, result,
                   fetches>>
    /\ UNCHANGED fvars

\* the entry is absent: drop the read guard and go on to the write block
ReadMiss(p) ==
    /\ pc[p] = "read_held"
    /\ ~Contains(cached_chains, chain_id[p])
    /\ readers' = readers \ {p}
    /\ missed' = [missed EXCEPT ![p] = TRUE]
    /\ pc' = [pc EXCEPT ![p] = "write_wait"]
    /\ UNCHANGED <<cached_chains, writer, chain_id, status, chain, result, fetches>>
    /\ UNCHANGED fvars

\* self.cached_chains.write().await, then the registry request is sent
WriteAcquire(p) ==
    /\ pc[p] = "write_wait"
    /\ CanWrite
    /\ writer' = p
    /\ fetches' = [fetches EXCEPT ![p] = @ + 1]
    /\ pc' = [pc EXCEPT ![p] = "sending"]
    /\ UNCHANGED <<cached_chains, readers, chain_id, status, chain, result, missed>>
    /\ UNCHANGED fvars

\* send().await? fails: the error is returned and the write guard dropped
SendError(p) ==
    /\ pc[p] = "sending"
    /\ result' = [result EXCEPT ![p] = SendFailed]
    /\ writer' = 0
    /\ pc' = [pc EXCEPT ![p] = "done"]
    /\ UNCHANGED <<cached_chains, readers, chain_id, status, chain, fetches, missed>>
    /\ UNCHANGED fvars

\* a status check that lets every status through
StatusAccepted(s) == TRUE

\* res.status() == StatusCode::OK
StatusIsOK(s) == s = StatusOK

\* send().await? yields a response with status s
Response(p, s) ==
    /\ pc[p] = "sending"
    /\ status' = [status EXCEPT ![p] = s]
    /\ IF StatusIsOK(s)
       THEN /\ pc' = [pc EXCEPT ![p] = "body"]
            /\ UNCHANGED <<writer, result>>
       ELSE /\ result' = [result EXCEPT ![p] = LookupFailed(s)]
            /\ writer' = 0
            /\ pc' = [pc EXCEPT ![p] = "done"]
    /\ UNCHANGED <<cached_chains, readers, chain_id, chain, fetches, missed>>
    /\ UNCHANGED fvars

\* a decode failure remembered in the cache as an entry without a Chain
BodyErrorMemoized(p) ==
    /\ pc[p] = "body"
    /\ cached_chains' = Insert(cached_chains, chain_id[p], NoChain)
    /\ result' = [result EXCEPT ![p] = DecodeFailed]
    /\ writer' = 0
    /\ pc' = [pc EXCEPT ![p] = "done"]
    /\ UNCHANGED <<readers, chain_id, status, chain, fetches, missed>>
    /\ UNCHANGED fvars

\* res.json().await? fails: the error is returned and the write guard dropped
BodyError(p) ==
    /\ pc[p] = "body"
    /\ result' = [result EXCEPT ![p] = DecodeFailed]
    /\ writer' = 0
    /\ pc' = [pc EXCEPT ![p] = "done"]
    /\ UNCHANGED <<cached_chains, readers, chain_id, status, chain, fetches, missed>>
    /\ UNCHANGED fvars

\* res.json().await? yields Chain c: insert it, drop the write guard, return
\* Ok(chain); get_chain_explorer_url then returns chain.get_url()
BodyParsed(p, c) ==
    /\ pc[p] = "body"
    /\ cached_chains' = Insert(cached_chains, chain_id[p], c)
    /\ chain' = [chain EXCEPT ![p] = c]
    /\ result' = [result EXCEPT ![p] = get_url(c)]
    /\ writer' = 0
    /\ pc' = [pc EXCEPT ![p] = "done"]
    /\ UNCHANGED <<readers, chain_id, status, fetches, missed>>
    /\ UNCHANGED fvars

Next ==
    \E p \in Procs :
        \/ \E k \in ChainIds : Call(p, k)
        \/ ReadAcquire(p)
        \/ ReadHit(p)
        \/ ReadMiss(p)
        \/ WriteAcquire(p)
        \/ SendError(p)
        \/ \E s \in Statuses : Response(p, s)
        \/ BodyError(p)
        \/ \E c \in Chains : BodyParsed(p, c)

Spec == Init /\ [][Next]_vars

\* the steps of call p after it is made; the runtime polls every task that can
\* make progress, and every registry request ends in a response or an error
Step(p) ==
    \/ ReadAcquire(p)
    \/ ReadHit(p)
    \/ ReadMiss(p)
    \/ WriteAcquire(p)
    \/ SendError(p)
    \/ \E s \in Statuses : Response(p, s)
    \/ BodyError(p)
    \/ \E c \in Chains : BodyParsed(p, c)

FairSpec == Spec /\ \A p \in Procs : WF_vars(Step(p))

\* ----------------------------------------------------- API::request steps
\* a forwarder that goes on to the explorer although the resolution failed
ResolutionIgnored(p) ==
    /\ pc[p] = "done"
    /\ fpc[p] = "none"
    /\ result[p].kind = "Err"
    /\ request' = [request EXCEPT ![p] =
                      Request(get_stats, "", <<>>, BuildUrl("", "stats"), <<>>)]
    /\ gets' = [gets EXCEPT ![p] = @ + 1]
    /\ fpc' = [fpc EXCEPT ![p] = "sending"]
    /\ UNCHANGED <<cached_chains, readers, writer, pc, chain_id, status, chain, result,
                   fetches, missed, body, reply>>

\* get_chain_explorer_url(chain_id).await? returned an error: request returns it
ResolutionFailed(p) ==
    /\ pc[p] = "done"
    /\ fpc[p] = "none"
    /\ result[p].kind = "Err"
    /\ reply' = [reply EXCEPT ![p] = result[p]]
    /\ fpc' = [fpc EXCEPT ![p] = "done"]
    /\ UNCHANGED <<cached_chains, readers, writer, pc, chain_id, status, chain, result,
                   fetches, missed, request, body, gets>>

\* the base URL is resolved: the GET is built from it, the operation's path and
\* its serialized parameters, and sent
SendRequest(p, op, id, vals) ==
    /\ pc[p] = "done"
    /\ fpc[p] = "none"
    /\ result[p].kind = "Ok"
    /\ request' = [request EXCEPT ![p] =
                      Request(op, id, vals,
                              BuildUrl(result[p].val, PathOf(op, id)),
                              Serialize(op.params, vals))]
    /\ gets' = [gets EXCEPT ![p] = @ + 1]
    /\ fpc' = [fpc EXCEPT ![p] = "sending"]
    /\ UNCHANGED <<cached_chains, readers, writer, pc, chain_id, status, chain, result,
                   fetches, missed, body, reply>>

\* send().await? of the explorer request fails
ExplorerSendError(p) ==
    /\ fpc[p] = "sending"
    /\ reply' = [reply EXCEPT ![p] = SendFailed]
    /\ request' = [request EXCEPT ![p] = NoRequest]
    /\ fpc' = [fpc EXCEPT ![p] = "done"]
    /\ UNCHANGED <<cached_chains, readers, writer, pc, chain_id, status, chain, result,
                   fetches, missed, body, gets>>

\* a forwarder that sends the request again after a status other than 200
ExplorerResponseRetrying(p, s, b) ==
    /\ fpc[p] = "sending"
    /\ IF s = StatusOK
       THEN /\ body' = [body EXCEPT ![p] = b]
            /\ fpc' = [fpc EXCEPT ![p] = "body"]
            /\ UNCHANGED <<reply, request, gets>>
       ELSE /\ gets[p] < 2
            /\ gets' = [gets EXCEPT ![p] = @ + 1]
            /\ UNCHANGED <<reply, request, body, fpc>>
    /\ UNCHANGED <<cached_chains, readers, writer, pc, chain_id, status, chain, result,
                   fetches, missed>>

\* send().await? yields a response with status s and body b
ExplorerResponse(p, s, b) ==
    /\ fpc[p] = "sending"
    /\ IF s = StatusOK
       THEN /\ body' = [body EXCEPT ![p] = b]
            /\ fpc' = [fpc EXCEPT ![p] = "body"]
            /\ UNCHANGED <<reply, request>>
       ELSE /\ reply' = [reply EXCEPT ![p] = RequestFailed(s)]
            /\ request' = [request EXCEPT ![p] = NoRequest]
            /\ fpc' = [fpc EXCEPT ![p] = "done"]
            /\ UNCHANGED body
    /\ UNCHANGED <<cached_chains, readers, writer, pc, chain_id, status, chain, result,
                   fetches, missed, gets>>

\* res.json().await? of the explorer response: the parsed value or the error
ExplorerBody(p) ==
    /\ fpc[p] = "body"
    /\ reply' = [reply EXCEPT ![p] = JsonParse(body[p])]
    /\ request' = [request EXCEPT ![p] = NoRequest]
    /\ body' = [body EXCEPT ![p] = ""]
    /\ fpc' = [fpc EXCEPT ![p] = "done"]
    /\ UNCHANGED <<cached_chains, readers, writer, pc, chain_id, status, chain, result,
                   fetches, missed, gets>>

\* the steps of API::request of call p after the resolution
Forward(p) ==
    \/ ResolutionFailed(p)
    \/ \E op \in Operations : \E id \in Identifiers : \E vals \in ValuesOf(op.params) :
           SendRequest(p, op, id, vals)
    \/ ExplorerSendError(p)
    \/ \E s \in Statuses : \E b \in Bodies : ExplorerResponse(p, s, b)
    \/ ExplorerBody(p)

\* forwarder calls made one after the other
NoRequestInFlight == \A q \in Procs : pc[q] = "idle" \/ fpc[q] = "done"

NextFwd ==
    \E p \in Procs :
        \/ \E k \in ChainIds : p <= NumRequests /\ NoRequestInFlight /\ Call(p, k)
        \/ Step(p)
        \/ Forward(p)

SpecFwd == Init /\ [][NextFwd]_vars

\* ------------------------------------------- OnChainData::convert_result
\* CallToolResult::success with the pretty-printed value as its text content
CallToolSuccess(v) == [is_error |-> FALSE, content |-> <<v>>]
\* ErrorData::new(ErrorCode::INTERNAL_ERROR, e.to_string(), None)
McpError(e) == [is_error |-> TRUE, code |-> "INTERNAL_ERROR", message |-> e]
\* the tool result made of the value request returned
convert_result(rst) ==
    IF rst.kind = "Ok" THEN CallToolSuccess(rst.val) ELSE McpError(rst.val)

\* --------------------------------------- a registry that answers consistently
\* the statuses the registry has answered requests for chain id k with
RegistryStatuses(k) ==
    {status[q] : q \in {r \in Procs : chain_id[r] = k /\ status[r] # 0}}
\* the bodies the registry has answered requests for chain id k with: a Chain,
\* or NoChain for a body that does not decode
RegistryBodies(k) ==
    {IF result[q] = DecodeFailed THEN NoChain ELSE chain[q] :
        q \in {r \in Procs : chain_id[r] = k /\ status[r] = StatusOK /\ pc[r] = "done"}}
\* status s, body c is what the registry answered call p's chain id with before
ConsistentStatus(p, s) == RegistryStatuses(chain_id[p]) \subseteq {s}
ConsistentBody(p, c) == RegistryBodies(chain_id[p]) \subseteq {c}

\* the steps of API::request of a get_stats call after the resolution
ForwardStats(p) ==
    \/ ResolutionFailed(p)
    \/ SendRequest(p, get_stats, "", <<>>)
    \/ ExplorerSendError(p)
    \/ \E s \in Statuses : \E b \in Bodies : ExplorerResponse(p, s, b)
    \/ ExplorerBody(p)

\* concurrent calls, the first NumForwarded of them get_stats calls through
\* API::request, against a registry that gives every request for a chain id
\* the same answer; a request may still fail in transport
NextCons ==
    \E p \in Procs :
        \/ \E k \in ChainIds : Call(p, k)
        \/ ReadAcquire(p)
        \/ ReadHit(p)
        \/ ReadMiss(p)
        \/ WriteAcquire(p)
        \/ SendError(p)
        \/ \E s \in Statuses : ConsistentStatus(p, s) /\ Response(p, s)
        \/ ConsistentBody(p, NoChain) /\ BodyError(p)
        \/ \E c \in Chains : ConsistentBody(p, c) /\ BodyParsed(p, c)
        \/ p <= NumForwarded /\ ForwardStats(p)

SpecCons == Init /\ [][NextCons]_vars

\* ------------------------------------------------------------ cancellation
\* the await points of get_chain, where its future can be dropped
Suspended(p) == pc[p] \in {"read_wait", "write_wait", "sending", "body"}

\* a drop of the future that leaves the write guard out
CancelKeepingGuard(p) ==
    /\ Suspended(p)
    /\ pc' = [pc EXCEPT ![p] = "cancelled"]
    /\ UNCHANGED <<cached_chains, readers, writer, chain_id, status, chain, result,
                   fetches, missed>>
    /\ UNCHANGED fvars

\* the caller drops the call's future at an await point: the pending lock
\* request or HTTP request is abandoned and a guard the call holds is dropped
Cancel(p) ==
    /\ Suspended(p)
    /\ pc' = [pc EXCEPT ![p] = "cancelled"]
    /\ readers' = readers \ {p}
    /\ writer' = IF writer = p THEN 0 ELSE writer
    /\ UNCHANGED <<cached_chains, chain_id, status, chain, result, fetches, missed>>
    /\ UNCHANGED fvars

NextCancel ==
    \E p \in Procs :
        \/ \E k \in ChainIds : Call(p, k)
        \/ Step(p)
        \/ Cancel(p)

SpecCancel == Init /\ [][NextCancel]_vars

\* calls made one after the other: a call is made only when no call is in flight
NoCallInFlight == \A q \in Procs : pc[q] \in {"idle", "done"}

NextSeq ==
    \E p \in Procs :
        \/ \E k \in ChainIds : NoCallInFlight /\ Call(p, k)
        \/ ReadAcquire(p)
        \/ ReadHit(p)
        \/ ReadMiss(p)
        \/ WriteAcquire(p)
        \/ SendError(p)
        \/ \E s \in Statuses : Response(p, s)
        \/ BodyError(p)
        \/ \E c \in Chains : BodyParsed(p, c)

SpecSeq == Init /\ [][NextSeq]_vars

\* ===================================================================== claims
Done(p) == pc[p] = "done"
InFlight(p) == pc[p] \notin {"idle", "done"}
\* call p fetched a record from the registry and inserted it into the cache
Inserted(p) == Done(p) /\ fetches[p] = 1 /\ chain[p] # NoChain
\* call p was made after call q, for the same registry-resolved chain id, and q
\* cached a record
LaterOfCached(q, p) ==
    /\ q < p
    /\ chain_id[p] = chain_id[q]
    /\ chain_id[p] # MerlinChainId
    /\ pc[p] # "idle"
    /\ Inserted(q)

\* --------------------------------------------------------------------- C1
C1_LaterState ==
    \A q \in Procs : \A p \in Procs :
        LaterOfCached(q, p) =>
            /\ fetches[p] = 0
            /\ fetches[p] + fetches[q] <= 1
            /\ Done(p) =>
                LET c == cached_chains[chain_id[p]] IN
                /\ chain[p] = c
                /\ result[p] = IF Len(c.explorers) > 0
                               THEN Ok(c.explorers[1])
                               ELSE NoExplorerAvailable

C1_LaterStep ==
    (\E q \in Procs : \E p \in Procs : LaterOfCached(q, p) /\ InFlight(p))
        => cached_chains' = cached_chains

\* C1 (as amended), calls made one after the other, chain id other than 4200:
\* once a resolution of chain id k has cached a record, every later resolution
\* of k issues no registry fetch, leaves the cache unchanged, and returns the
\* first explorer URL of the cached record when the record has an explorer and
\* fails with "no explorers" when it has none; so two resolutions in sequence,
\* the first of which cached a record, issue one registry fetch between them.
C1_CachedServesLater == []C1_LaterState /\ [][C1_LaterStep]_vars

\* C1 witness: a later call of a cached chain id returned the first of the
\* record's two explorer URLs without a fetch.
C1_Witness ==
    \E q \in Procs : \E p \in Procs :
        /\ LaterOfCached(q, p)
        /\ Done(p)
        /\ fetches[p] = 0
        /\ Len(cached_chains[chain_id[p]].explorers) = 2
        /\ result[p] = Ok(cached_chains[chain_id[p]].explorers[1])

\* C1 as originally stated: every later resolution of a cached chain id issues
\* no fetch and returns the first explorer URL of the cached record.
C1_Original ==
    \A q \in Procs : \A p \in Procs :
        (LaterOfCached(q, p) /\ Done(p)) =>
            LET c == cached_chains[chain_id[p]] IN
            /\ fetches[p] = 0
            /\ Len(c.explorers) > 0
            /\ result[p] = Ok(c.explorers[1])

\* --------------------------------------------------------------------- C2
C2_OverrideState ==
    \A p \in Procs :
        /\ chain_id[p] = MerlinChainId =>
            /\ Done(p)
            /\ result[p] = Ok(MerlinUrl)
            /\ fetches[p] = 0
            /\ status[p] = 0
            /\ chain[p] = NoChain
            /\ ~missed[p]
            /\ p \notin readers
            /\ writer # p
        /\ NextToCall(p) => ENABLED Call(p, MerlinChainId)
        /\ MerlinChainId \notin DOMAIN cached_chains

C2_OverrideStep ==
    \A p \in Procs :
        (chain_id[p] = 0 /\ chain_id'[p] = MerlinChainId) =>
            /\ pc'[p] = "done"
            /\ result'[p] = Ok(MerlinUrl)
            /\ UNCHANGED <<cached_chains, readers, writer, fetches, status>>

\* C2: in every reachable state (cache empty or populated, lock free or held
\* by a reader or a writer), a resolution of chain id 4200 can be made, returns
\* https://scan.merlinverify.com/ in one step, issues no registry fetch and
\* neither reads, writes nor locks the cache.
C2_OverrideBypasses == []C2_OverrideState /\ [][C2_OverrideStep]_vars

\* C2 witness: a resolution of 4200 made after a call that now holds the write
\* guard with its registry fetch in flight, the cache populated, has returned
\* the fixed URL.
C2_Witness ==
    \E p \in Procs : \E w \in Procs :
        /\ w < p
        /\ writer = w
        /\ pc[w] = "sending"
        /\ DOMAIN cached_chains # {}
        /\ chain_id[p] = MerlinChainId
        /\ result[p] = Ok(MerlinUrl)

\* --------------------------------------------------------------------- C3
\* the registry answered call p's fetch with a status other than 200
Rejected(p) == status[p] \notin {0, StatusOK}

C3_RejectedState ==
    /\ \A p \in Procs :
        Rejected(p) =>
            /\ Done(p)
            /\ result[p] = LookupFailed(status[p])
            /\ chain[p] = NoChain
            /\ writer # p
    /\ \A q \in Procs : \A p \in Procs :
        (q < p /\ chain_id[p] = chain_id[q] /\ Rejected(q) /\ Done(p)) =>
            \/ fetches[p] = 1
            \/ \E r \in Procs \ {p, q} :
                   chain_id[r] = chain_id[p] /\ Inserted(r) /\ status[r] = StatusOK

C3_RejectedStep ==
    /\ \A p \in Procs :
        (~Rejected(p) /\ Rejected(p)') =>
            /\ pc[p] = "sending"
            /\ fetches[p] = 1
            /\ cached_chains' = cached_chains
            /\ writer = p /\ writer' = 0
    /\ cached_chains' # cached_chains =>
        \E p \in Procs :
            /\ pc[p] = "body"
            /\ status[p] = StatusOK
            /\ cached_chains' = (chain_id[p] :> chain'[p]) @@ cached_chains

\* C3: when the registry answers a fetch for chain id k with a non-200 status,
\* the resolution fails with LookupFailed carrying that status, and no step of
\* that call changes the cache: the answer's step leaves the cache as it was,
\* and the only steps that change the cache are inserts by calls whose status
\* was 200.  The failure is not remembered: a later resolution of k issues its
\* own registry fetch, unless another call's fetch has cached k meanwhile.
C3_NonOkNotCached == []C3_RejectedState /\ [][C3_RejectedStep]_vars

\* C3 witness: a call failed with LookupFailed(404) while the cache already
\* held another entry, and a later call of the same id fetched again.
C3_Witness ==
    \E q \in Procs : \E p \in Procs :
        /\ q < p
        /\ chain_id[p] = chain_id[q]
        /\ Rejected(q)
        /\ result[q] = LookupFailed(404)
        /\ chain_id[q] \notin DOMAIN cached_chains
        /\ DOMAIN cached_chains # {}
        /\ Done(p)
        /\ fetches[p] = 1

\* --------------------------------------------------------------------- C4
\* call p fetched and inserted a record without explorers
InsertedEmpty(p) == Inserted(p) /\ Len(chain[p].explorers) = 0

\* C4, calls made one after the other: a status-200 record with an empty
\* explorer list makes the resolution fail with NoExplorerAvailable and is
\* inserted into the cache all the same; every later resolution of that chain
\* id issues no registry fetch and fails with NoExplorerAvailable again.
C4_EmptyRecordCached ==
    /\ \A p \in Procs :
        InsertedEmpty(p) =>
            /\ status[p] = StatusOK
            /\ result[p] = NoExplorerAvailable
            /\ chain_id[p] \in DOMAIN cached_chains
            /\ cached_chains[chain_id[p]] = chain[p]
    /\ \A q \in Procs : \A p \in Procs :
        (q < p /\ chain_id[p] = chain_id[q] /\ InsertedEmpty(q)) =>
            /\ fetches[p] = 0
            /\ Done(p) => result[p] = NoExplorerAvailable

\* C4 witness: a later call of a chain id cached with an empty explorer list
\* has failed with NoExplorerAvailable without a fetch of its own.
C4_Witness ==
    \E q \in Procs : \E p \in Procs :
        /\ q < p
        /\ chain_id[p] = chain_id[q]
        /\ InsertedEmpty(q)
        /\ Done(p)
        /\ result[p] = NoExplorerAvailable
        /\ fetches[p] = 0

\* --------------------------------------------------------------------- C5
FetchFailures == {SendFailed, DecodeFailed} \cup {LookupFailed(s) : s \in Statuses}

C5_EntriesState ==
    /\ \A k \in DOMAIN cached_chains :
        /\ k \in ChainIds \ {MerlinChainId}
        /\ cached_chains[k] \in Chains
        /\ \E p \in Procs :
            /\ chain_id[p] = k
            /\ status[p] = StatusOK
            /\ Inserted(p)
            /\ chain[p] = cached_chains[k]
    /\ \A p \in Procs :
        (Done(p) /\ result[p] \in FetchFailures) =>
            /\ fetches[p] = 1
            /\ chain[p] = NoChain
    /\ \A p \in Procs :
        (Done(p) /\ chain_id[p] # MerlinChainId
                 /\ chain_id[p] \notin DOMAIN cached_chains) =>
            /\ fetches[p] = 1
            /\ result[p] \in FetchFailures

C5_EntriesStep ==
    \A p \in Procs :
        (InFlight(p) /\ Done(p)' /\ result'[p] \in FetchFailures) =>
            cached_chains' = cached_chains

\* C5: in every reachable state every cache entry is a Chain record that some
\* call parsed from a status-200 registry response; a fetch that fails
\* (transport error, non-200 status, undecodable body) inserts nothing, so no
\* failure is ever stored, and every resolution that returned while its chain
\* id was still absent from the cache issued a registry fetch of its own.
C5_OnlySuccessCached == []C5_EntriesState /\ [][C5_EntriesStep]_vars

\* C5 witness: three calls of one chain id failed in the three ways, each
\* after its own fetch, and the chain id is still absent from the cache.
C5_Witness ==
    \E p \in Procs : \E q \in Procs : \E r \in Procs :
        /\ chain_id[p] = chain_id[q] /\ chain_id[q] = chain_id[r]
        /\ result[p] = SendFailed
        /\ result[q] = LookupFailed(404)
        /\ result[r] = DecodeFailed
        /\ fetches[p] + fetches[q] + fetches[r] = 3
        /\ chain_id[p] \notin DOMAIN cached_chains

\* --------------------------------------------------------------------- C6
\* C6 as stated: once the cache holds a record for chain id k, the record
\* stored under k never changes, under any interleaving of resolutions and
\* whatever the registry returns to later fetches.
C6_CachedRecordImmutable ==
    [][\A k \in DOMAIN cached_chains :
           /\ k \in DOMAIN cached_chains'
           /\ cached_chains'[k] = cached_chains[k]]_vars

\* --------------------------------------------------------------------- C7
\* call p has a registry fetch in flight (request sent, body not yet parsed)
Fetching(p) == pc[p] \in {"sending", "body"}
\* call p can take the lock it is waiting for
CanProceed(p) ==
    /\ pc[p] = "read_wait" => CanRead
    /\ pc[p] = "write_wait" => CanWrite

\* C7 as stated: a resolution of an uncached chain id never has to wait for the
\* registry fetch of a resolution of a different chain id: whenever it is at a
\* lock acquisition while such a fetch is in flight, the lock can be taken.
C7_NoWaitBehindOtherFetch ==
    \A p \in Procs : \A q \in Procs :
        (/\ chain_id[p] # chain_id[q]
         /\ pc[p] \in {"read_wait", "write_wait"}
         /\ chain_id[p] \notin DOMAIN cached_chains
         /\ Fetching(q)) => CanProceed(p)

\* --------------------------------------------------------------------- C8
C8_MissState ==
    /\ \A p \in Procs :
        missed[p] =>
            /\ pc[p] \in {"write_wait", "sending", "body", "done"}
            /\ fetches[p] = IF pc[p] = "write_wait" THEN 0 ELSE 1
    /\ \A p \in Procs : \A q \in Procs :
        (p # q /\ chain_id[p] = chain_id[q] /\ missed[p] /\ missed[q]
               /\ Done(p) /\ Done(q)) =>
            fetches[p] + fetches[q] = 2

C8_LastInsertWins ==
    \A p \in Procs :
        (pc[p] = "body" /\ Done(p)' /\ chain'[p] # NoChain) =>
            /\ chain_id[p] \in DOMAIN cached_chains'
            /\ cached_chains'[chain_id[p]] = chain'[p]

\* C8: resolutions of the same uncached chain id are not deduplicated: every
\* call that observed a cache miss takes the write path and issues a registry
\* fetch of its own (two calls that missed: two fetches), and every insert
\* replaces whatever the cache held for the id, so the entry left in the cache
\* is the record of the call that inserted last.
C8_NoDeduplication == []C8_MissState /\ [][C8_LastInsertWins]_vars

\* C8 witness: two calls of one chain id both missed, both fetched and both
\* inserted, with different records; the cache holds the second one's.
C8_Witness ==
    \E p \in Procs : \E q \in Procs :
        /\ p # q
        /\ chain_id[p] = chain_id[q]
        /\ missed[p] /\ missed[q]
        /\ Inserted(p) /\ Inserted(q)
        /\ fetches[p] + fetches[q] = 2
        /\ chain[p] # chain[q]
        /\ cached_chains[chain_id[q]] = chain[q]

\* --------------------------------------------------------------------- C9
C9_LockState ==
    /\ writer \in Procs \cup {0}
    /\ readers \subseteq Procs
    /\ writer # 0 => readers = {}
    /\ readers = {p \in Procs : pc[p] = "read_held"}
    /\ \A p \in Procs : Fetching(p) <=> writer = p

C9_InsertUnderWrite ==
    cached_chains' # cached_chains =>
        /\ writer # 0
        /\ readers = {}
        /\ \A k \in DOMAIN cached_chains' :
            k # chain_id[writer] =>
                k \in DOMAIN cached_chains /\ cached_chains'[k] = cached_chains[k]

\* C9: the cache obeys reader/writer lock discipline in every reachable state:
\* the read guards are held by exactly the calls inside the read block, the
\* write guard by the one call inside the write block, and while the write
\* guard is held no read guard is; every change of the cache is an insert made
\* by the holder of the write guard, under its own chain id.
C9_LockDiscipline == []C9_LockState /\ [][C9_InsertUnderWrite]_vars

\* C9 witness: every call holds a read guard at the same time.
C9_Witness == readers = Procs /\ Cardinality(readers) >= 2

\* -------------------------------------------------------------------- C10
\* calls p and q resolved two different registry-resolved chain ids, both after
\* a cache miss, both received a status-200 record with at least one explorer,
\* and theirs are the only fetches issued for the two ids
TwoResolved(p, q) ==
    /\ p # q
    /\ chain_id[p] # chain_id[q]
    /\ missed[p] /\ missed[q]
    /\ Inserted(p) /\ Inserted(q)
    /\ Len(chain[p].explorers) > 0 /\ Len(chain[q].explorers) > 0
    /\ \A r \in Procs \ {p, q} :
        chain_id[r] \in {chain_id[p], chain_id[q]} => fetches[r] = 0

C10_BothState ==
    \A p \in Procs : \A q \in Procs :
        TwoResolved(p, q) =>
            /\ result[p] = Ok(chain[p].explorers[1])
            /\ result[q] = Ok(chain[q].explorers[1])
            /\ {chain_id[p], chain_id[q]} \subseteq DOMAIN cached_chains
            /\ cached_chains[chain_id[p]] = chain[p]
            /\ cached_chains[chain_id[q]] = chain[q]

\* C10: every resolution that has been made eventually returns, also when it
\* runs concurrently with a resolution of another uncached chain id; and when
\* two resolutions of different uncached chain ids a and b have both received
\* status-200 records with at least one explorer, each has returned the first
\* explorer URL of its own record and the cache holds two entries: under a the
\* record returned for a, under b the record returned for b.
C10_BothResolve ==
    /\ []C10_BothState
    /\ \A p \in Procs : InFlight(p) ~> Done(p)

\* C10 witness: two calls of different chain ids both missed, fetched
\* different records and returned their first explorer URLs; the cache holds
\* both records.
C10_Witness ==
    \E p \in Procs : \E q \in Procs :
        /\ TwoResolved(p, q)
        /\ chain[p] # chain[q]
        /\ result[p] = Ok(chain[p].explorers[1])
        /\ result[q] = Ok(chain[q].explorers[1])
        /\ cached_chains[chain_id[p]] = chain[p]
        /\ cached_chains[chain_id[q]] = chain[q]

\* -------------------------------------------------------------------- C11
\* C11: cache entries are never evicted: in every step, of a successful, a
\* failing or a cancelled call, every chain id present in the cache before the
\* step is present after it.
C11_NeverEvicted == [][DOMAIN cached_chains \subseteq DOMAIN cached_chains']_vars

\* C11 witness: an entry is in the cache although, since it was cached, calls
\* of the same chain id and of another one have been cancelled in their fetch
\* or have failed, and a further record has been inserted.
C11_Witness ==
    \E q \in Procs : \E p \in Procs : \E r \in Procs :
        /\ q < p /\ q < r /\ p # r
        /\ Inserted(q)
        /\ chain_id[q] \in DOMAIN cached_chains
        /\ pc[p] = "cancelled" /\ fetches[p] = 1
        /\ Done(r) /\ result[r] \in {SendFailed, DecodeFailed, LookupFailed(404)}

\* -------------------------------------------------------------------- C12
Cancelled(p) == pc[p] = "cancelled"
Running(p) == pc[p] \in {"read_wait", "read_held", "write_wait", "sending", "body"}

C12_CancelState ==
    /\ \A p \in Procs :
        Cancelled(p) =>
            /\ p \notin readers
            /\ writer # p
            /\ chain[p] = NoChain
            /\ result[p] = NoResult
    /\ \A k \in DOMAIN cached_chains : cached_chains[k] \in Chains
    /\ readers = {p \in Procs : pc[p] = "read_held"}
    /\ \A p \in Procs : writer = p <=> pc[p] \in {"sending", "body"}
    /\ writer \in Procs \cup {0}
    /\ (\E p \in Procs : Running(p)) => (\E p \in Procs : ENABLED Step(p))

C12_CancelStep ==
    \A p \in Procs :
        (~Cancelled(p) /\ Cancelled(p)') =>
            /\ Suspended(p)
            /\ cached_chains' = cached_chains
            /\ writer = p => writer' = 0
            /\ \A q \in Procs \ {p} : pc'[q] = pc[q]

\* C12: cancelling a resolution at any of its suspension points (waiting for
\* the read lock, waiting for the write lock, awaiting the registry response,
\* reading the body) leaves the cache exactly as it was: the cancelled call has
\* inserted nothing, every entry is a complete record, and the lock the call
\* held is released, so that whenever a call is still running some call can
\* take a step.
C12_CancelSafe == []C12_CancelState /\ [][C12_CancelStep]_vars

\* C12 witness: a call was cancelled with its registry fetch in flight, under
\* the write guard, and another call holds the write guard now.
C12_Witness ==
    \E p \in Procs : \E q \in Procs :
        /\ Cancelled(p)
        /\ fetches[p] = 1
        /\ writer = q
        /\ q # p

\* -------------------------------------------------------------------- C18
C18_FetchState ==
    /\ Cardinality({p \in Procs : Fetching(p)}) <= 1
    /\ \A p \in Procs :
        Fetching(p) =>
            /\ writer = p
            /\ missed[p]
            /\ fetches[p] = 1
            /\ readers = {}
            /\ \A q \in Procs \ {p} : pc[q] \in {"idle", "read_wait", "write_wait", "done"}
            /\ \A q \in Procs \ {p} : ~ENABLED ReadAcquire(q) /\ ~ENABLED WriteAcquire(q)

C18_FetchStep ==
    /\ \A p \in Procs :
        \* the guard is taken in the step that sends the request ...
        /\ (~Fetching(p) /\ Fetching(p)') => (writer = 0 /\ writer' = p)
        \* ... and given up in the step that inserts the record or fails
        /\ (Fetching(p) /\ ~Fetching(p)') => (Done(p)' /\ writer' = 0)
        /\ (Fetching(p) /\ Fetching(p)') => writer' = p
    /\ \A p \in Procs : \A q \in Procs \ {p} :
        (Fetching(p) /\ chain_id[q] # MerlinChainId /\ pc[q] # "idle") =>
            /\ pc'[q] = pc[q]
            /\ result'[q] = result[q]
            /\ chain'[q] = chain[q]

\* C18: a resolution that misses the cache holds the write guard from the step
\* that sends the registry request to the step that inserts the record or
\* fails; so at most one registry fetch is in flight in any reachable state,
\* and while a fetch is in flight no other resolution of a non-override chain
\* id, cached or not, takes the lock, reads the cache or returns.
C18_FetchUnderWriteLock == []C18_FetchState /\ [][C18_FetchStep]_vars

\* C18 witness: with a fetch in flight, a call of a chain id that is already
\* cached waits for the read lock.
C18_Witness ==
    \E p \in Procs : \E q \in Procs :
        /\ Fetching(p)
        /\ pc[q] = "read_wait"
        /\ chain_id[q] \in DOMAIN cached_chains
        /\ ~ENABLED ReadAcquire(q)

\* -------------------------------------------------------------------- C19
LockFree == writer = 0 /\ readers = {}

C19_ReleaseBeforeWrite ==
    \A p \in Procs :
        /\ pc[p] = "write_wait" => p \notin readers
        /\ Fetching(p) => p \notin readers
        /\ (\E q \in Procs : Running(q)) => (\E q \in Procs : ENABLED Step(q))

\* C19: resolution is deadlock-free and terminates: a call has released its
\* read guard when it asks for the write guard, whenever a call is running
\* some call can take a step, and, every call being polled while it can make
\* progress and every registry request ending in a response or an error, every
\* call that has been made eventually returns a URL or an error and the lock
\* is eventually free.
C19_Terminates ==
    /\ []C19_ReleaseBeforeWrite
    /\ \A p \in Procs : Running(p) ~> (Done(p) /\ result[p] # NoResult)
    /\ ~LockFree ~> LockFree

\* C19 witness: three calls ran at once, two of them after a miss of the same
\* chain id, and all have returned; the lock is free.
C19_Witness ==
    /\ LockFree
    /\ \A p \in Procs : Done(p)
    /\ \E p \in Procs : \E q \in Procs :
        p # q /\ chain_id[p] = chain_id[q] /\ missed[p] /\ missed[q]

\* -------------------------------------------------------------------- C13
\* call p's forwarder has returned
Replied(p) == fpc[p] = "done"
\* call p has an explorer request out
Forwarding(p) == fpc[p] \in {"sending", "body"}

\* C13: when the resolution of the explorer base URL fails for a forwarder
\* call (registry transport error, non-200 registry status, undecodable
\* registry body, or a record without explorers), the forwarder call fails
\* with that same error and issues no HTTP request to any explorer.
C13_NoRequestOnFailure ==
    \A p \in Procs :
        (Done(p) /\ result[p].kind = "Err") =>
            /\ gets[p] = 0
            /\ request[p] = NoRequest
            /\ ~Forwarding(p)
            /\ Replied(p) => reply[p] = result[p]

\* C13 witness: one forwarder call failed on a registry transport error, the
\* other on a record without explorers; neither sent an explorer request.
C13_Witness ==
    \E p \in Procs : \E q \in Procs :
        /\ Replied(p) /\ reply[p] = SendFailed /\ result[p] = SendFailed
        /\ Replied(q) /\ reply[q] = NoExplorerAvailable
        /\ gets[p] = 0 /\ gets[q] = 0

\* -------------------------------------------------------------------- C14
C14_OneGetState ==
    \A p \in Procs :
        /\ gets[p] <= 1
        /\ Forwarding(p) => gets[p] = 1
        /\ (Replied(p) /\ result[p].kind = "Ok") => gets[p] = 1
        /\ reply[p] # NoResult <=> Replied(p)
        /\ (Replied(p) /\ gets[p] = 1) =>
               reply[p] \in {SendFailed, DecodeFailed, RequestFailed(404), Ok(ItemsValue)}

C14_OneGetStep ==
    \A p \in Procs :
        /\ (fpc[p] = "sending" /\ fpc'[p] # "sending") =>
            /\ gets'[p] = gets[p]
            /\ \/ fpc'[p] = "body" /\ reply'[p] = NoResult
               \/ fpc'[p] = "done" /\ reply'[p] \in {SendFailed, RequestFailed(404)}
        /\ (fpc[p] = "body" /\ fpc'[p] # "body") =>
            /\ gets'[p] = gets[p]
            /\ fpc'[p] = "done"
            /\ body[p] # ItemsBody => reply'[p] = DecodeFailed

\* C14: every forwarder call whose base URL resolves issues exactly one
\* explorer GET and never retries: a non-200 status ends the call with
\* RequestFailed(status), a 200 status with a body that is not valid JSON ends
\* it with DecodeFailed, and in neither case is a second request sent or a
\* result returned before the call has ended.
C14_SingleGetNoRetry == []C14_OneGetState /\ [][C14_OneGetStep]_vars

\* C14 witness: one forwarder call ended with RequestFailed(404), the other
\* with DecodeFailed, each after one explorer GET.
C14_Witness ==
    \E p \in Procs : \E q \in Procs :
        /\ Replied(p) /\ result[p].kind = "Ok" /\ reply[p] = RequestFailed(404)
        /\ Replied(q) /\ result[q].kind = "Ok" /\ reply[q] = DecodeFailed
        /\ gets[p] = 1 /\ gets[q] = 1

\* -------------------------------------------------------------------- C15
C15_GetState ==
    \A p \in Procs :
        Forwarding(p) =>
            LET r == request[p]
                base == result[p].val
            IN
            /\ r.op \in Operations
            /\ r.url = base \o "api/v2/" \o r.op.prefix
                       \o (IF r.op.takes_id THEN r.id \o r.op.suffix ELSE "")
            /\ (r.op = search /\ r.vals = <<"WETH">>) =>
                   Target(r) = base \o "api/v2/search?q=WETH"
            /\ r.op = get_stats => Target(r) = base \o "api/v2/stats"
            /\ (r.op = get_transactions /\ r.vals = <<"", "WETH", "WETH">>) =>
                   Target(r) = base \o "api/v2/transactions?type=WETH&method=WETH"
            /\ (r.op = get_address_tokens /\ r.vals = <<"WETH">>) =>
                   Target(r) = base \o "api/v2/addresses/" \o r.id \o "/tokens?type=WETH"
            /\ chain_id[p] = MerlinChainId => base = MerlinUrl
            /\ chain_id[p] # MerlinChainId => base = chain[p].explorers[1]

C15_ReturnStep ==
    \A p \in Procs :
        (fpc[p] = "body" /\ fpc'[p] = "done" /\ body[p] = ItemsBody) =>
            reply'[p] = Ok([items |-> <<>>])

\* C15: for every operation and every resolved chain id the explorer request
\* is a GET to base_url + "api/v2/" + relative path with the operation's query
\* parameters (chain id 1, search, q=WETH: {explorer}api/v2/search?q=WETH), and
\* on a 200 response the parsed JSON body is what the caller gets.
C15_GetAndReturn == []C15_GetState /\ [][C15_ReturnStep]_vars

\* C15 witness: the search for WETH on chain id 1 has been sent to the first
\* explorer of the chain's record and answered with 200 and {"items": []}.
C15_Witness ==
    \E p \in Procs :
        /\ fpc[p] = "body"
        /\ chain_id[p] = 1
        /\ chain[p] = ChainA
        /\ Target(request[p]) = "https://a1.example/api/v2/search?q=WETH"
        /\ body[p] = ItemsBody

\* -------------------------------------------------------------------- C16
\* the places of parameter name w in the query
Occurrences(query, w) == {j \in 1..Len(query) : query[j][1] = w}

\* field i of the request's parameter struct is sent exactly once, under its
\* wire name, with its value
SentOnce(r, i) ==
    /\ Cardinality(Occurrences(r.query, r.op.params[i].wire)) = 1
    /\ \A j \in Occurrences(r.query, r.op.params[i].wire) : r.query[j][2] = r.vals[i]

\* C16 (as amended): for every operation and every string query parameter of
\* its parameter set other than the q of search: an empty value does not appear
\* in the outgoing query, a non-empty value appears exactly once, under its
\* wire name, with its original value.  The q of search is always sent, as an
\* empty q when its value is empty.  The query holds nothing else.
C16_EmptyOmitted ==
    \A p \in Procs :
        Forwarding(p) =>
            LET r == request[p] IN
            /\ \A i \in 1..Len(r.op.params) :
                IF r.vals[i] = "" /\ r.op # search
                THEN Occurrences(r.query, r.op.params[i].wire) = {}
                ELSE SentOnce(r, i)
            /\ \A j \in 1..Len(r.query) :
                \E i \in 1..Len(r.op.params) : r.query[j][1] = r.op.params[i].wire

\* C16 witness: address token transfers with only the filter given: the query
\* is the filter alone.
C16_Witness ==
    \E p \in Procs :
        /\ Forwarding(p)
        /\ request[p].op = get_address_token_transfers
        /\ request[p].vals = <<"", "WETH", "">>
        /\ request[p].query = << <<"filter", "WETH">> >>

\* C16 as originally stated: for every operation and every string query
\* parameter, an empty value does not appear in the outgoing query and a
\* non-empty value appears exactly once with its original value.
C16_Original ==
    \A p \in Procs :
        Forwarding(p) =>
            LET r == request[p] IN
            \A i \in 1..Len(r.op.params) :
                IF r.vals[i] = ""
                THEN Occurrences(r.query, r.op.params[i].wire) = {}
                ELSE SentOnce(r, i)

\* -------------------------------------------------------------------- C17
C17_FailState ==
    \A p \in Procs :
        /\ (Done(p) /\ result[p].kind = "Err") => (p \notin readers /\ writer # p)
        /\ (Replied(p) /\ reply[p].kind = "Err") =>
            /\ convert_result(reply[p]).is_error
            /\ convert_result(reply[p]).message = reply[p].val
            /\ p \notin readers /\ writer # p
        /\ (Replied(p) /\ gets[p] = 0) => reply[p] = result[p]

\* the resolutions of p and q, both ended otherwise than in a transport error
\* of their own, are of the same chain id
SameResolution(p, q) ==
    /\ Done(p) /\ Done(q)
    /\ chain_id[p] = chain_id[q]
    /\ result[p] # SendFailed /\ result[q] # SendFailed

C17_SameState ==
    \A p \in Procs : \A q \in Procs :
        SameResolution(p, q) => result[p] = result[q]

C17_OnceStep ==
    \A p \in Procs :
        /\ Done(p) => result'[p] = result[p]
        /\ Replied(p) => reply'[p] = reply[p]

\* C17: calls are independent and a failure is reported to its own caller
\* only: a call that fails ends with one error result carrying the error
\* message, which never changes afterwards, and holds no guard of the cache
\* lock; and against a registry that answers consistently, the result of a
\* resolution that did not fail in transport is determined by its chain id
\* alone, whatever other calls, failed or not, came before or run beside it.
C17_Independent == []C17_FailState /\ []C17_SameState /\ [][C17_OnceStep]_vars

\* C17 witness: call p failed on a registry transport error and was told so;
\* call q of the same chain id, made after it, fetched the record itself and
\* resolved the explorer's URL.
C17_Witness ==
    \E p \in Procs : \E q \in Procs :
        /\ p < q
        /\ chain_id[p] = chain_id[q]
        /\ Replied(p) /\ reply[p] = SendFailed /\ result[p] = SendFailed
        /\ convert_result(reply[p]) = McpError(SendFailed.val)
        /\ Done(q) /\ fetches[q] = 1 /\ result[q].kind = "Ok"
        /\ writer = 0 /\ readers = {}

=============================================================================
